---------------------------- MODULE Spec2Model ----------------------------
(***************************************************************************)
(* A model of the PDF-to-Excel pipeline:                                   *)
(*   - processFile (src/services/geminiService.ts): the batch loop, the    *)
(*     renumbering of batch-local page keys and the all-or-nothing policy; *)
(*   - callGeminiWithRetry / tryRepairJson: response clean-up, JSON        *)
(*     decoding and truncation repair;                                     *)
(*   - handleProcess (src/App.tsx): the caller of processFile;             *)
(*   - downloadExcel (src/utils/excelHelper.ts): merge-mode export.        *)
(*                                                                         *)
(* A JavaScript string is a sequence of one-character strings.  A message  *)
(* built from a template literal is a sequence whose fixed parts are kept  *)
(* as single elements and whose interpolated parts are spelled out.        *)
(***************************************************************************)
EXTENDS Integers, Sequences, FiniteSets, TLC

-----------------------------------------------------------------------------
(* Bounds of the model.                                                    *)

\* Largest page count of a document.
MaxPages == 7

\* Longest batch-local key handed to the renumbering on its own.
MaxKeyLen == 2

\* Most pages of a map handed to downloadExcel.
MaxSheetPages == 3

-----------------------------------------------------------------------------
(* JavaScript strings and numbers.                                         *)

BATCH_SIZE == 3

Min(a, b) == IF a < b THEN a ELSE b

Digits == <<"0", "1", "2", "3", "4", "5", "6", "7", "8", "9">>

IsDigit(c) == \E d \in 1..10 : Digits[d] = c

DigitVal(c) == (CHOOSE d \in 1..10 : Digits[d] = c) - 1

\* String(n) for an integer n >= 0: its decimal text.
RECURSIVE String(_)
String(n) ==
    IF n < 10 THEN <<Digits[n + 1]>>
    ELSE String(n \div 10) \o <<Digits[(n % 10) + 1]>>

\* s.replace(/\D/g, ""): the digits of s, in order.
StripNonDigits(s) == SelectSeq(s, IsDigit)

\* parseInt(d) for a text d of digits only: NaN for the empty text.
RECURSIVE DigitsValue(_)
DigitsValue(d) ==
    IF d = <<>> THEN 0
    ELSE 10 * DigitsValue(SubSeq(d, 1, Len(d) - 1)) + DigitVal(d[Len(d)])

parseInt(d) ==
    IF d = <<>> THEN [nan |-> TRUE, val |-> 0]
    ELSE [nan |-> FALSE, val |-> DigitsValue(d)]

\* s.substring(0, n) and s.substring(n) with 0-based n.
Take(s, n) == SubSeq(s, 1, Min(n, Len(s)))

Drop(s, n) == SubSeq(s, n + 1, Len(s))

\* Whether text p occurs in s at 0-based index i.
StartsAt(s, p, i) ==
    /\ i >= 0
    /\ i + Len(p) <= Len(s)
    /\ \A k \in 1..Len(p) : s[i + k] = p[k]

\* s.indexOf(p) and s.lastIndexOf(p): 0-based, -1 when p does not occur.
indexOf(s, p) ==
    LET hits == {i \in 0..Len(s) : StartsAt(s, p, i)}
    IN  IF hits = {} THEN -1 ELSE CHOOSE i \in hits : \A j \in hits : i <= j

lastIndexOf(s, p) ==
    LET hits == {i \in 0..Len(s) : StartsAt(s, p, i)}
    IN  IF hits = {} THEN -1 ELSE CHOOSE i \in hits : \A j \in hits : i >= j

IsSpace(c) == c \in {" ", "\n"}

\* s.trim()
RECURSIVE TrimLeft(_)
TrimLeft(s) ==
    IF s # <<>> /\ IsSpace(s[1]) THEN TrimLeft(Tail(s)) ELSE s

RECURSIVE TrimRight(_)
TrimRight(s) ==
    IF s # <<>> /\ IsSpace(s[Len(s)]) THEN TrimRight(SubSeq(s, 1, Len(s) - 1))
    ELSE s

trim(s) == TrimRight(TrimLeft(s))

-----------------------------------------------------------------------------
(* JSON values and JSON.parse.                                             *)
(*                                                                         *)
(* A value is [t |-> "str", v |-> text], [t |-> "num", v |-> n],           *)
(* [t |-> "arr", v |-> sequence of values] or [t |-> "obj", v |-> sequence *)
(* of [k |-> text, v |-> value] in insertion order].  The texts of the     *)
(* model hold none of the letters of true, false and null together, so a   *)
(* letter where a value is expected is a syntax error.                     *)

StrV(s) == [t |-> "str", v |-> s]

NumV(n) == [t |-> "num", v |-> n]

ArrV(a) == [t |-> "arr", v |-> a]

ObjV(m) == [t |-> "obj", v |-> m]

Fail == [ok |-> FALSE]

Ok(val, next) == [ok |-> TRUE, val |-> val, next |-> next]

\* obj[k] = v on a JavaScript object: an existing key keeps its place.
ObjPut(m, k, v) ==
    IF \E x \in 1..Len(m) : m[x].k = k
    THEN [x \in 1..Len(m) |-> IF m[x].k = k THEN [k |-> k, v |-> v] ELSE m[x]]
    ELSE Append(m, [k |-> k, v |-> v])

ObjHas(m, k) == \E x \in 1..Len(m) : m[x].k = k

ObjGet(m, k) == m[CHOOSE x \in 1..Len(m) : m[x].k = k].v

\* The first position >= i of s that holds no JSON white space.
RECURSIVE SkipWs(_, _)
SkipWs(s, i) ==
    IF i <= Len(s) /\ IsSpace(s[i]) THEN SkipWs(s, i + 1) ELSE i

\* The string literal whose opening quote is at i - 1: scans from i with the
\* characters decoded so far in acc.
RECURSIVE ScanString(_, _, _)
ScanString(s, i, acc) ==
    IF i > Len(s) THEN Fail
    ELSE IF s[i] = "\"" THEN Ok(acc, i + 1)
    ELSE IF s[i] = "\n" THEN Fail
    ELSE IF s[i] = "\\" THEN
        IF i + 1 > Len(s) THEN Fail
        ELSE IF s[i + 1] \in {"\"", "\\", "/"}
             THEN ScanString(s, i + 2, Append(acc, s[i + 1]))
        ELSE IF s[i + 1] = "n" THEN ScanString(s, i + 2, Append(acc, "\n"))
        ELSE Fail
    ELSE ScanString(s, i + 1, Append(acc, s[i]))

\* The end of the run of digits that starts at i.
RECURSIVE DigitsEnd(_, _)
DigitsEnd(s, i) ==
    IF i <= Len(s) /\ IsDigit(s[i]) THEN DigitsEnd(s, i + 1) ELSE i

\* A number literal at i: 0, or a digit 1-9 followed by digits.
ScanNumber(s, i) ==
    IF s[i] = "0" THEN Ok(NumV(0), i + 1)
    ELSE LET e == DigitsEnd(s, i)
         IN  Ok(NumV(DigitsValue(SubSeq(s, i, e - 1))), e)

RECURSIVE ParseValue(_, _)
RECURSIVE ParseElements(_, _, _)
RECURSIVE ParseMembers(_, _, _)

\* The elements of an array from position i (after "[" or ","), acc parsed.
ParseElements(s, i, acc) ==
    LET r == ParseValue(s, i)
    IN  IF ~r.ok THEN Fail
        ELSE LET j == SkipWs(s, r.next)
                 a == Append(acc, r.val)
             IN  IF j > Len(s) THEN Fail
                 ELSE IF s[j] = "," THEN ParseElements(s, j + 1, a)
                 ELSE IF s[j] = "]" THEN Ok(ArrV(a), j + 1)
                 ELSE Fail

\* The members of an object from position i (after "{" or ","), acc parsed.
ParseMembers(s, i, acc) ==
    LET j == SkipWs(s, i)
    IN  IF j > Len(s) \/ s[j] # "\"" THEN Fail
        ELSE LET key == ScanString(s, j + 1, <<>>)
             IN  IF ~key.ok THEN Fail
                 ELSE LET c == SkipWs(s, key.next)
                      IN  IF c > Len(s) \/ s[c] # ":" THEN Fail
                          ELSE LET r == ParseValue(s, c + 1)
                               IN  IF ~r.ok THEN Fail
                                   ELSE LET e == SkipWs(s, r.next)
                                            m == ObjPut(acc, key.val, r.val)
                                        IN  IF e > Len(s) THEN Fail
                                            ELSE IF s[e] = ","
                                                 THEN ParseMembers(s, e + 1, m)
                                            ELSE IF s[e] = "}"
                                                 THEN Ok(ObjV(m), e + 1)
                                            ELSE Fail

ParseValue(s, i) ==
    LET j == SkipWs(s, i)
    IN  IF j > Len(s) THEN Fail
        ELSE IF s[j] = "\"" THEN
            LET r == ScanString(s, j + 1, <<>>)
            IN  IF r.ok THEN Ok(StrV(r.val), r.next) ELSE Fail
        ELSE IF IsDigit(s[j]) THEN ScanNumber(s, j)
        ELSE IF s[j] = "[" THEN
            LET k == SkipWs(s, j + 1)
            IN  IF k <= Len(s) /\ s[k] = "]" THEN Ok(ArrV(<<>>), k + 1)
                ELSE ParseElements(s, j + 1, <<>>)
        ELSE IF s[j] = "{" THEN
            LET k == SkipWs(s, j + 1)
            IN  IF k <= Len(s) /\ s[k] = "}" THEN Ok(ObjV(<<>>), k + 1)
                ELSE ParseMembers(s, j + 1, <<>>)
        ELSE Fail

\* JSON.parse(s): [ok |-> TRUE, val |-> value], or [ok |-> FALSE] for the
\* SyntaxError it throws.
JSONparse(s) ==
    LET r == ParseValue(s, 1)
    IN  IF r.ok /\ SkipWs(s, r.next) = Len(s) + 1
        THEN [ok |-> TRUE, val |-> r.val]
        ELSE Fail

-----------------------------------------------------------------------------
(* JavaScript objects as seen by Object.keys and property access.          *)

\* Whether k is an array index ("0", "1", ..., no leading zero): such keys
\* come first in Object.keys, in ascending order.
IsIndexKey(k) ==
    /\ k # <<>>
    /\ \A x \in 1..Len(k) : IsDigit(k[x])
    /\ (Len(k) > 1 => k[1] # "0")

IndexKeyLess(a, b) == DigitsValue(a) < DigitsValue(b)

KeysOf(m) == [x \in 1..Len(m) |-> m[x].k]

IsOtherKey(k) == ~IsIndexKey(k)

\* Object.keys(val) for a parsed JSON value.
ObjectKeys(val) ==
    IF val.t = "obj" THEN
        SortSeq(SelectSeq(KeysOf(val.v), IsIndexKey), IndexKeyLess)
            \o SelectSeq(KeysOf(val.v), IsOtherKey)
    ELSE IF val.t \in {"arr", "str"} THEN [x \in 1..Len(val.v) |-> String(x - 1)]
    ELSE <<>>

\* val[k] for a key k of Object.keys(val).
Prop(val, k) ==
    IF val.t = "obj" THEN ObjGet(val.v, k)
    ELSE IF val.t = "arr" THEN val.v[DigitsValue(k) + 1]
    ELSE StrV(<<val.v[DigitsValue(k) + 1]>>)

-----------------------------------------------------------------------------
(* callGeminiWithRetry: the clean-up of the response text, the decoding    *)
(* and the truncation repair.                                              *)

\* The grave accent, which a TLA+ string cannot hold, is written "^".
Grave == "^"

Fence == <<Grave, Grave, Grave>>

\* The first replace of line 159, for s that starts with the fence: drops the
\* fence and a tag json (in either case) after it.
StripOpeningFence(s) ==
    LET r == Drop(s, 3)
    IN  IF /\ Len(r) >= 4
           /\ r[1] \in {"j", "J"} /\ r[2] \in {"s", "S"}
           /\ r[3] \in {"o", "O"} /\ r[4] \in {"n", "N"}
        THEN Drop(r, 4)
        ELSE r

\* The second replace of line 159: drops a fence that ends s.
StripClosingFence(s) ==
    IF StartsAt(s, Fence, Len(s) - 3) THEN Take(s, Len(s) - 3) ELSE s

\* The 0-based index of the end of the line that holds index i.
LineEnd(s, i) ==
    CHOOSE e \in i..Len(s) :
        /\ e = Len(s) \/ s[e + 1] = "\n"
        /\ \A k \in i..(e - 1) : s[k + 1] # "\n"

\* The 0-based index of the first non-space character at or after i.
SpaceEnd(s, i) ==
    CHOOSE e \in i..Len(s) :
        /\ e = Len(s) \/ ~IsSpace(s[e + 1])
        /\ \A k \in i..(e - 1) : IsSpace(s[k + 1])

\* Whether the pattern of line 161 matches at 0-based index p: p starts a
\* line, and optional white space and then two slashes follow.
CommentAt(s, p) ==
    /\ p = 0 \/ s[p] = "\n"
    /\ StartsAt(s, <<"/", "/">>, SpaceEnd(s, p))

\* Whether the character at 0-based index k lies in a match: from the start
\* of the match to the end of the line of the slashes.
InComment(s, k) ==
    \E p \in 0..k : CommentAt(s, p) /\ k < LineEnd(s, SpaceEnd(s, p))

\* Line 161: s with every match of the pattern removed.
StripComments(s) ==
    LET Kept(n) == ~InComment(s, n - 1)
        kept == SelectSeq([n \in 1..Len(s) |-> n], Kept)
    IN  [n \in 1..Len(kept) |-> s[kept[n]]]

\* Lines 157-163: the text handed to JSON.parse.
CleanResponse(textResponse) ==
    LET t1 == trim(textResponse)
        t2 == IF StartsAt(t1, Fence, 0)
              THEN trim(StripClosingFence(StripOpeningFence(t1)))
              ELSE t1
        t3 == StripComments(t2)
        firstBracket == indexOf(t3, <<"{">>)
    IN  IF firstBracket # -1 THEN Drop(t3, firstBracket) ELSE t3

\* The suffixes tryRepairJson appends, in order (the last try is "]}" again).
candidates == << <<"}", "}">>, <<"]", "}">>, <<"]", "]", "}">>, <<"]", "}">> >>

\* Faulty variant of CutIndex: the text is not cut back to the last closed row.
CutIndex_End(jsonStr) == Len(jsonStr)

\* Where tryRepairJson cuts the text: after the last "]," if there is one,
\* else after the last "]", else -1.
CutIndex(jsonStr) ==
    LET lastRowEnd == lastIndexOf(jsonStr, <<"]", ",">>)
        lastRowEndBracket == lastIndexOf(jsonStr, <<"]">>)
    IN  IF lastRowEnd # -1 THEN lastRowEnd + 1
        ELSE IF lastRowEndBracket # -1 THEN lastRowEndBracket + 1
        ELSE -1

\* tryRepairJson(jsonStr): [ok |-> TRUE, val |-> value], or [ok |-> FALSE]
\* for null.
tryRepairJson(jsonStr) ==
    LET cutIndex == CutIndex(jsonStr)
        fixedStr == Take(jsonStr, cutIndex)
        parses == {c \in 1..Len(candidates) :
                      JSONparse(fixedStr \o candidates[c]).ok}
    IN  IF cutIndex = -1 \/ parses = {} THEN Fail
        ELSE JSONparse(fixedStr \o
                 candidates[CHOOSE c \in parses : \A d \in parses : c <= d])

\* Lines 165-172: direct decoding, then the repair.
ParseResponse(jsonString) ==
    LET direct == JSONparse(jsonString)
    IN  IF direct.ok THEN direct ELSE tryRepairJson(jsonString)

\* Messages of the errors (the texts of the source are in Chinese).
MsgNoApiKey == <<"API key not found, check that process.env.API_KEY is set.">>

MsgCannotLoad == <<"Cannot read the PDF file, check whether it is damaged.">>

MsgNoData == <<"Gemini returned no data">>

MsgTruncated == <<"JSON parse failed (Truncated)">>

MsgUnknown == <<"unknown error">>

Thrown(isError, message) ==
    [ok |-> FALSE, isError |-> isError, message |-> message]

\* callGeminiWithRetry for one behaviour of the service: it throws an Error,
\* throws something that is no Error, or answers with a text (maybe empty).
\* The result is [ok |-> TRUE, val |-> map] or what is thrown.
callGeminiWithRetry(resp) ==
    IF resp.kind = "throwError" THEN Thrown(TRUE, resp.message)
    ELSE IF resp.kind = "throwOther" THEN Thrown(FALSE, <<>>)
    ELSE IF resp.text = <<>> THEN Thrown(TRUE, MsgNoData)
    ELSE LET parsed == ParseResponse(CleanResponse(resp.text))
         IN  IF parsed.ok THEN parsed ELSE Thrown(TRUE, MsgTruncated)

-----------------------------------------------------------------------------
(* The documents and the behaviours of the extraction service.             *)

\* JSON.stringify of a text: quoted, with quote, backslash and newline
\* escaped.
RECURSIVE Escape(_)
Escape(s) ==
    IF s = <<>> THEN <<>>
    ELSE (IF s[1] \in {"\"", "\\"} THEN <<"\\", s[1]>>
          ELSE IF s[1] = "\n" THEN <<"\\", "n">>
          ELSE <<s[1]>>) \o Escape(Tail(s))

Quote(s) == <<"\"">> \o Escape(s) \o <<"\"">>

\* The texts of seq joined with commas.
RECURSIVE Join(_)
Join(seq) ==
    IF seq = <<>> THEN <<>>
    ELSE IF Len(seq) = 1 THEN seq[1]
    ELSE seq[1] \o <<",">> \o Join(Tail(seq))

\* JSON.stringify of a row (texts), of a grid (rows) and of a page map
\* (a sequence of [k |-> key, v |-> grid]).
SerializeRow(row) ==
    <<"[">> \o Join([c \in 1..Len(row) |-> Quote(row[c])]) \o <<"]">>

SerializeGrid(grid) ==
    <<"[">> \o Join([r \in 1..Len(grid) |-> SerializeRow(grid[r])]) \o <<"]">>

SerializeMap(m) ==
    <<"{">>
        \o Join([x \in 1..Len(m) |->
                    Quote(m[x].k) \o <<":">> \o SerializeGrid(m[x].v)])
        \o <<"}">>

\* A grid, and a page map, as JSON.parse returns them.
GridValue(grid) ==
    ArrV([r \in 1..Len(grid) |->
            ArrV([c \in 1..Len(grid[r]) |-> StrV(grid[r][c])])])

MapValue(m) ==
    ObjV([x \in 1..Len(m) |-> [k |-> m[x].k, v |-> GridValue(m[x].v)]])

\* What page p (0-based) of a document shows: two rows, the first names the
\* page.
PageGrid(p) == << <<<<"P">>, String(p + 1)>>, <<<<"B">>>> >>

\* The map an obedient service returns for a sub-document with the pages ps:
\* page x of the sub-document under the batch-local key x.
HonestMap(ps) == [x \in 1..Len(ps) |-> [k |-> String(x), v |-> PageGrid(ps[x])]]

Text(t) == [kind |-> "text", text |-> t]

\* Grids the service makes up.
GridW == << <<<<"W">>>> >>

GridV == << <<<<"V">>, <<>>>> >>

\* Page maps with keys the service was not asked for.
OddMaps ==
    { << [k |-> <<"p", "1">>, v |-> GridW] >>,
      << [k |-> <<"0", "1">>, v |-> GridW] >>,
      << [k |-> <<"4">>, v |-> GridW] >>,
      << [k |-> <<"0">>, v |-> GridW] >>,
      << [k |-> <<"x">>, v |-> GridW] >>,
      << [k |-> <<>>, v |-> GridW] >>,
      << [k |-> <<"x">>, v |-> GridW], [k |-> <<"y">>, v |-> GridV] >>,
      << [k |-> <<"p", "1">>, v |-> GridW], [k |-> <<"1">>, v |-> GridV] >> }

\* The obedient answer wrapped in a fenced code block tagged json, with one
\* leaked comment line.
Fenced(t) ==
    Fence \o <<"j", "s", "o", "n", "\n", "/", "/", "c", "\n">> \o t
        \o <<"\n">> \o Fence \o <<"\n">>

\* The behaviours of the service for a sub-document with the pages ps: the
\* call throws, or it answers with no text, with the obedient map (plain,
\* fenced, or cut off by the output limit), with a map under other keys, or
\* with an array.
Responses(ps) ==
    LET honest == SerializeMap(HonestMap(ps))
    IN  { [kind |-> "throwError", message |-> <<"fetch failed">>],
          [kind |-> "throwOther"],
          Text(<<>>),
          Text(honest),
          Text(Fenced(honest)),
          Text(Take(honest, Len(honest) - 1)),
          Text(Take(honest, Len(honest) \div 2)),
          Text(SerializeGrid(GridW)) }
        \cup {Text(SerializeMap(m)) : m \in OddMaps}

-----------------------------------------------------------------------------
(* The state: one run of handleProcess (App.tsx) around processFile, the   *)
(* parser, the export, and the App with the runs it has in flight.         *)

VARIABLES
    apiKey,          \* the credential handed to processFile
    docValid,        \* whether PDFDocument.load accepts the bytes
    docPages,        \* the page count of the document
    onProgress,      \* the callback: "none", "setStatus" (the App), "other"
    pc,              \* where the run is
    totalPages,      \* processFile: totalPages
    i,               \* processFile: the loop variable, the window start
    subDoc,          \* processFile: the page indices copied into subDoc
    aggregatedData,  \* processFile: the aggregate map
    outcome,         \* how processFile ended: returned a map or threw
    extractedData,   \* App: the extractedData state
    status,          \* App: the status state
    trace,           \* history: the calls made to the collaborators
    writes,          \* history: the writes to aggregatedData
    original,        \* parser: the page map the service meant to send
    payload,         \* parser: the text it sent
    jsonString,      \* callGeminiWithRetry: jsonString
    parseResult,     \* callGeminiWithRetry: what it returned or threw
    data,            \* downloadExcel: the map to export
    sortedPages,     \* downloadExcel: sortedPages
    pageIndex,       \* downloadExcel: the position of forEach in sortedPages
    allRows,         \* downloadExcel: allRows
    sheet,           \* downloadExcel: the rows handed to aoa_to_sheet
    fileData,        \* App: the fileData state, the file selected
    reads,           \* App: the files whose FileReader has not ended yet
    runs,            \* App: the calls of processFile not yet settled
    installed,       \* history: whose result and whose error the App shows
    chosen,          \* history: how many files were handed to the reader
    started          \* history: how many times handleProcess ran

vars == <<apiKey, docValid, docPages, onProgress, pc, totalPages, i, subDoc,
          aggregatedData, outcome, extractedData, status, trace, writes,
          original, payload, jsonString, parseResult,
          data, sortedPages, pageIndex, allRows, sheet,
          fileData, reads, runs, installed, chosen, started>>

\* What a run of processFile leaves alone: its inputs.
inputs == <<apiKey, docValid, docPages, onProgress>>

\* The variables of each operation.
runVars == <<totalPages, i, subDoc, aggregatedData, outcome, extractedData,
             status, trace>>

parseVars == <<original, payload, jsonString, parseResult>>

excelVars == <<data, sortedPages, pageIndex, allRows, sheet>>

appVars == <<fileData, reads, runs, installed, chosen, started>>

others == <<parseVars, excelVars, appVars>>

\* status.error is null (written <<>>) or a message, which is never empty.
Null == <<>>

Status(isProcessing, progress, error, message) ==
    [isProcessing |-> isProcessing, progress |-> progress, error |-> error,
     message |-> message]

Pending == [kind |-> "pending"]

Returned(map) == [kind |-> "returned", value |-> map]

\* new Error(message) thrown, or a thrown value that is no Error and has no
\* message.
ThrownError(message) ==
    [kind |-> "thrown", isError |-> TRUE, message |-> message]

ThrownOther == [kind |-> "thrown", isError |-> FALSE, message |-> <<>>]

\* Line 33 and line 32.
EndPage(start, total) == Min(start + BATCH_SIZE, total)

StartPage(start) == start + 1

\* Faulty variant of PageIndices: the inner loop stops one page short.
PageIndices_Short(start, total) ==
    [j \in 1..(EndPage(start, total) - StartPage(start)) |-> start + (j - 1)]

\* Lines 42-45: the indices pushed by the inner loop.
PageIndices(start, total) ==
    [j \in 1..(EndPage(start, total) - StartPage(start) + 1) |->
        start + (j - 1)]

\* The sub-documents a run can send, and what the service may answer to
\* each: Responses, tabulated once.
SubDocs ==
    {PageIndices(s, t) : s \in {w \in 0..(MaxPages - 1) : w % BATCH_SIZE = 0},
                         t \in 1..MaxPages} \ {<<>>}

ResponseTable ==
    {[pages |-> ps, responses |-> Responses(ps)] : ps \in SubDocs}

ResponsesTo(ps) ==
    (CHOOSE row \in ResponseTable : row.pages = ps).responses

\* Line 36: the progress message.
ProgressMessage(start, total) ==
    <<"Analyzing pages ">> \o String(StartPage(start)) \o <<" - ">>
        \o String(EndPage(start, total)) \o <<" (of ">> \o String(total)
        \o <<" pages)...">>

\* Line 86: the message of the error that wraps a failed batch.
BatchErrorMessage(start, total, err) ==
    <<"Pages ">> \o String(StartPage(start)) \o <<"-">>
        \o String(EndPage(start, total)) \o <<" failed: ">>
        \o (IF err.isError THEN err.message ELSE MsgUnknown)

\* Faulty variants of GlobalKey: the 1-based start page is the offset; no
\* offset is added; the fallback key carries no marker of the batch.
GlobalKey_FromStartPage(start, localKey) ==
    LET localNum == parseInt(StripNonDigits(localKey))
    IN  IF ~localNum.nan THEN String(StartPage(start) + localNum.val)
        ELSE localKey \o <<"_", "b", "a", "t", "c", "h", "_">>
                 \o String(StartPage(start))

GlobalKey_LocalOnly(start, localKey) ==
    LET localNum == parseInt(StripNonDigits(localKey))
    IN  IF ~localNum.nan THEN String(localNum.val)
        ELSE localKey \o <<"_", "b", "a", "t", "c", "h", "_">>
                 \o String(StartPage(start))

GlobalKey_NoMarker(start, localKey) ==
    LET localNum == parseInt(StripNonDigits(localKey))
    IN  IF ~localNum.nan THEN String(start + localNum.val)
        ELSE localKey

\* Lines 65-78: the key of the aggregate map for a batch-local key of the
\* window that starts at index start.
GlobalKey(start, localKey) ==
    LET localNum == parseInt(StripNonDigits(localKey))
    IN  IF ~localNum.nan THEN String(start + localNum.val)
        ELSE localKey \o <<"_", "b", "a", "t", "c", "h", "_">>
                 \o String(StartPage(start))

\* Lines 63-79: the aggregate map after the keys of batchResult, from the
\* n-th on, are merged into agg.
RECURSIVE MergeFrom(_, _, _, _)
MergeFrom(agg, start, batchResult, n) ==
    LET keys == ObjectKeys(batchResult)
    IN  IF n > Len(keys) THEN agg
        ELSE MergeFrom(ObjPut(agg, GlobalKey(start, keys[n]),
                              Prop(batchResult, keys[n])),
                       start, batchResult, n + 1)

Merge(agg, start, batchResult) == MergeFrom(agg, start, batchResult, 1)

\* The writes of one merge, in order: the key written and the window.
MergeWrites(start, batchResult) ==
    LET keys == ObjectKeys(batchResult)
    IN  [n \in 1..Len(keys) |->
            [key |-> GlobalKey(start, keys[n]), window |-> start,
             localKey |-> keys[n]]]

\* No run of processFile has started, no parse, no export.
NoRun ==
    /\ totalPages = 0
    /\ i = 0
    /\ subDoc = <<>>
    /\ aggregatedData = <<>>
    /\ outcome = Pending
    /\ extractedData = <<>>
    /\ status = Status(FALSE, 0, Null, <<>>)
    /\ trace = <<>>
    /\ writes = <<>>

NoParse ==
    /\ original = <<>>
    /\ payload = <<>>
    /\ jsonString = <<>>
    /\ parseResult = Pending

NoExport ==
    /\ data = <<>>
    /\ sortedPages = <<>>
    /\ pageIndex = 0
    /\ allRows = <<>>
    /\ sheet = <<>>

NoApp ==
    /\ fileData = Null
    /\ reads = {}
    /\ runs = <<>>
    /\ installed = [data |-> 0, error |-> 0]
    /\ chosen = 0
    /\ started = 0

NoInputs ==
    /\ apiKey = <<"k">>
    /\ docValid = TRUE
    /\ docPages = 0
    /\ onProgress = "none"

Init ==
    /\ apiKey \in {<<>>, <<"k">>}
    /\ docValid \in BOOLEAN
    /\ docPages \in 0..MaxPages
    /\ onProgress \in {"none", "setStatus", "other"}
    /\ pc = "idle"
    /\ NoRun
    /\ NoApp
    /\ NoParse
    /\ NoExport

\* App.tsx 71-83: handleProcess up to the call of processFile.
HandleProcess ==
    /\ pc = "idle"
    /\ status' = Status(TRUE, 0, Null, <<"Preparing...">>)
    /\ pc' = "checkKey"
    /\ UNCHANGED <<inputs, others, totalPages, i, subDoc, aggregatedData, outcome,
                   extractedData, trace, writes>>

\* Faulty variant of CheckApiKey: the credential is not checked before the load.
CheckApiKey_Skipped ==
    /\ pc = "checkKey"
    /\ pc' = "load"
    /\ UNCHANGED <<inputs, others, totalPages, i, subDoc, aggregatedData,
                   outcome, extractedData, status, trace, writes>>

\* Lines 14-16.
CheckApiKey ==
    /\ pc = "checkKey"
    /\ IF apiKey = <<>>
       THEN /\ outcome' = ThrownError(MsgNoApiKey)
            /\ pc' = "settled"
       ELSE /\ outcome' = outcome
            /\ pc' = "load"
    /\ UNCHANGED <<inputs, others, totalPages, i, subDoc, aggregatedData,
                   extractedData, status, trace, writes>>

\* Lines 19-28: PDFDocument.load, then the set-up of the loop.
LoadDocument ==
    /\ pc = "load"
    /\ trace' = Append(trace, [op |-> "load"])
    /\ IF docValid
       THEN /\ totalPages' = docPages
            /\ aggregatedData' = <<>>
            /\ i' = 0
            /\ pc' = "loop"
            /\ outcome' = outcome
       ELSE /\ outcome' = ThrownError(MsgCannotLoad)
            /\ pc' = "settled"
            /\ UNCHANGED <<totalPages, aggregatedData, i>>
    /\ UNCHANGED <<inputs, others, subDoc, extractedData, status, writes>>

\* Line 31 with i < totalPages, and lines 35-37 without a callback.
EnterWindow ==
    /\ pc = "loop"
    /\ i < totalPages
    /\ pc' = IF onProgress = "none" THEN "split" ELSE "progress"
    /\ UNCHANGED <<inputs, others, totalPages, i, subDoc, aggregatedData, outcome,
                   extractedData, status, trace, writes>>

\* Lines 35-37: the callback returns.  The callback of the App (App.tsx
\* 80-82) stores the message in status.
ProgressReturns ==
    /\ pc = "progress"
    /\ trace' = Append(trace, [op |-> "progress", start |-> i, threw |-> FALSE,
                               message |-> ProgressMessage(i, totalPages)])
    /\ status' = IF onProgress = "setStatus"
                 THEN [status EXCEPT !.message = ProgressMessage(i, totalPages)]
                 ELSE status
    /\ pc' = "split"
    /\ UNCHANGED <<inputs, others, totalPages, i, subDoc, aggregatedData, outcome,
                   extractedData, writes>>

\* Lines 35-37: the callback throws; no try encloses the call.
ProgressThrows ==
    /\ pc = "progress"
    /\ onProgress = "other"
    /\ trace' = Append(trace, [op |-> "progress", start |-> i, threw |-> TRUE,
                               message |-> ProgressMessage(i, totalPages)])
    /\ outcome' = ThrownError(<<"callback failed">>)
    /\ pc' = "settled"
    /\ UNCHANGED <<inputs, others, totalPages, i, subDoc, aggregatedData,
                   extractedData, status, writes>>

\* Lines 40-51: the sub-document of the window.
SplitPages ==
    /\ pc = "split"
    /\ subDoc' = PageIndices(i, totalPages)
    /\ trace' = Append(trace, [op |-> "copyPages", start |-> i,
                               pages |-> PageIndices(i, totalPages)])
    /\ pc' = "call"
    /\ UNCHANGED <<inputs, others, totalPages, i, aggregatedData, outcome,
                   extractedData, status, writes>>

\* Lines 54-56 and 140: callGeminiWithRetry is called and awaited; the
\* request for the window goes to the service.
SendBatch ==
    /\ pc = "call"
    /\ trace' = Append(trace, [op |-> "send", start |-> i, pages |-> subDoc])
    /\ pc' = "await"
    /\ UNCHANGED <<inputs, others, totalPages, i, subDoc, aggregatedData,
                   outcome, extractedData, status, writes>>

\* Faulty variant of CallGemini: a failed batch is skipped and the loop goes on.
CallGemini_SkipFailed ==
    /\ pc = "await"
    /\ \E resp \in ResponsesTo(subDoc) :
          LET batchResult == callGeminiWithRetry(resp)
          IN  /\ trace' = Append(trace, [op |-> "extract", start |-> i,
                                         pages |-> subDoc,
                                         result |-> batchResult])
              /\ IF batchResult.ok
                 THEN /\ aggregatedData' =
                             Merge(aggregatedData, i, batchResult.val)
                      /\ writes' = writes \o MergeWrites(i, batchResult.val)
                 ELSE UNCHANGED <<aggregatedData, writes>>
    /\ i' = i + BATCH_SIZE
    /\ pc' = "loop"
    /\ UNCHANGED <<inputs, others, totalPages, subDoc, outcome, extractedData,
                   status>>

\* Faulty variant of CallGemini: the loop variable is not advanced.
CallGemini_Stuck ==
    /\ pc = "await"
    /\ \E resp \in ResponsesTo(subDoc) :
          LET batchResult == callGeminiWithRetry(resp)
          IN  /\ trace' = Append(trace, [op |-> "extract", start |-> i,
                                         pages |-> subDoc,
                                         result |-> batchResult])
              /\ IF batchResult.ok
                 THEN /\ aggregatedData' =
                             Merge(aggregatedData, i, batchResult.val)
                      /\ writes' = writes \o MergeWrites(i, batchResult.val)
                      /\ pc' = "loop"
                      /\ outcome' = outcome
                 ELSE /\ outcome' = ThrownError(
                             BatchErrorMessage(i, totalPages, batchResult))
                      /\ pc' = "settled"
                      /\ UNCHANGED <<aggregatedData, writes>>
    /\ UNCHANGED <<inputs, others, totalPages, i, subDoc, extractedData,
                   status>>

\* Faulty variant of CallGemini: a failed batch is sent to the service again.
CallGemini_Retry ==
    /\ pc = "await"
    /\ \E resp \in ResponsesTo(subDoc) :
          LET batchResult == callGeminiWithRetry(resp)
          IN  /\ trace' = Append(trace, [op |-> "extract", start |-> i,
                                         pages |-> subDoc,
                                         result |-> batchResult])
              /\ IF batchResult.ok
                 THEN /\ aggregatedData' =
                             Merge(aggregatedData, i, batchResult.val)
                      /\ writes' = writes \o MergeWrites(i, batchResult.val)
                      /\ i' = i + BATCH_SIZE
                      /\ pc' = "loop"
                 ELSE /\ pc' = "call"
                      /\ UNCHANGED <<aggregatedData, writes, i>>
    /\ UNCHANGED <<inputs, others, totalPages, subDoc, outcome, extractedData,
                   status>>

\* Lines 140-172 and 56-87 with the step of the loop: the awaited call of
\* the service ends; its result is merged and the loop goes on, or the
\* failure is wrapped and thrown.
CallGemini ==
    /\ pc = "await"
    /\ \E resp \in ResponsesTo(subDoc) :
          LET batchResult == callGeminiWithRetry(resp)
          IN  /\ trace' = Append(trace, [op |-> "extract", start |-> i,
                                         pages |-> subDoc,
                                         result |-> batchResult])
              /\ IF batchResult.ok
                 THEN /\ aggregatedData' =
                             Merge(aggregatedData, i, batchResult.val)
                      /\ writes' = writes \o MergeWrites(i, batchResult.val)
                      /\ i' = i + BATCH_SIZE
                      /\ pc' = "loop"
                      /\ outcome' = outcome
                 ELSE /\ outcome' = ThrownError(
                             BatchErrorMessage(i, totalPages, batchResult))
                      /\ pc' = "settled"
                      /\ UNCHANGED <<aggregatedData, writes, i>>
    /\ UNCHANGED <<inputs, others, totalPages, subDoc, extractedData, status>>

\* Line 31 with i >= totalPages, and line 90.
ReturnAggregate ==
    /\ pc = "loop"
    /\ ~(i < totalPages)
    /\ outcome' = Returned(aggregatedData)
    /\ pc' = "settled"
    /\ UNCHANGED <<inputs, others, totalPages, i, subDoc, aggregatedData,
                   extractedData, status, trace, writes>>

\* App.tsx 84-85: processFile returned.
HandleProcessResult ==
    /\ pc = "settled"
    /\ outcome.kind = "returned"
    /\ extractedData' = outcome.value
    /\ status' = Status(FALSE, 100, Null, <<>>)
    /\ pc' = "finished"
    /\ UNCHANGED <<inputs, others, totalPages, i, subDoc, aggregatedData, outcome,
                   trace, writes>>

\* App.tsx 86-93: processFile threw.
HandleProcessError ==
    /\ pc = "settled"
    /\ outcome.kind = "thrown"
    /\ status' = Status(FALSE, 0,
                        IF outcome.message # <<>> THEN outcome.message
                        ELSE MsgUnknown,
                        <<>>)
    /\ pc' = "finished"
    /\ UNCHANGED <<inputs, others, totalPages, i, subDoc, aggregatedData, outcome,
                   extractedData, trace, writes>>

Next ==
    \/ HandleProcess
    \/ CheckApiKey
    \/ LoadDocument
    \/ EnterWindow
    \/ ProgressReturns
    \/ ProgressThrows
    \/ SplitPages
    \/ SendBatch
    \/ CallGemini
    \/ ReturnAggregate
    \/ HandleProcessResult
    \/ HandleProcessError

Spec == Init /\ [][Next]_vars

\* The steps of processFile: each is the continuation of an await or of a
\* call that has returned, which the event loop runs.  The handlers of the
\* App are left to the user and to the promise.
ProcessFileStep ==
    \/ CheckApiKey
    \/ LoadDocument
    \/ EnterWindow
    \/ ProgressReturns
    \/ ProgressThrows
    \/ SplitPages
    \/ SendBatch
    \/ CallGemini
    \/ ReturnAggregate

\* The same runs, where a collaborator that was called does return or throw
\* and processFile goes on from there.
SpecLive == Init /\ [][Next]_vars /\ WF_vars(ProcessFileStep)

-----------------------------------------------------------------------------
(* callGeminiWithRetry step by step, on the prefixes of serialized page    *)
(* maps: lines 154-172.                                                    *)

\* Page maps a service may mean to send: the rows and pages of different
\* sizes, cells that hold the characters of the row delimiters.
SampleMaps ==
    { << [k |-> <<"1">>, v |-> << <<<<"A">>, <<"B">>>>, <<<<"C">>, <<"D">>>> >>],
         [k |-> <<"2">>, v |-> << <<<<"E">>>> >>] >>,
      << [k |-> <<"1">>, v |-> << <<<<"]", ",">>>>, <<<<"x">>>> >>] >>,
      << [k |-> <<"1">>, v |-> << <<>>, <<<<"\"">>, <<"]">>>> >>],
         [k |-> <<"2">>, v |-> <<>>],
         [k |-> <<"3">>, v |-> << <<<<"\\">>>>, <<<<"F", " ">>>> >>] >>,
      << [k |-> <<"1">>, v |-> << <<<<"A">>>> >>] >>,
      << [k |-> <<"]", ",">>, v |-> << <<<<>>>>, <<<<"G">>>> >>],
         [k |-> <<"2">>, v |-> << <<<<"{">>, <<"/", "/">>>> >>] >> }

\* The states before a parse starts: a prefix of a serialized map arrives.
InitParse ==
    /\ original \in SampleMaps
    /\ \E cut \in 0..Len(SerializeMap(original)) :
          payload = Take(SerializeMap(original), cut)
    /\ jsonString = <<>>
    /\ parseResult = Pending
    /\ pc = "response"
    /\ NoInputs
    /\ NoRun
    /\ NoApp
    /\ NoExport

\* Lines 154-163: the text of the response is checked and cleaned.
ReceiveResponse ==
    /\ pc = "response"
    /\ IF payload = <<>>
       THEN /\ parseResult' = ThrownError(MsgNoData)
            /\ pc' = "parsed"
            /\ jsonString' = jsonString
       ELSE /\ jsonString' = CleanResponse(payload)
            /\ pc' = "decode"
            /\ parseResult' = parseResult
    /\ UNCHANGED <<inputs, appVars, runVars, writes, excelVars, original, payload>>

\* Lines 165-167: the direct decoding.
DirectDecode ==
    /\ pc = "decode"
    /\ LET direct == JSONparse(jsonString)
       IN  IF direct.ok
           THEN /\ parseResult' = Returned(direct.val)
                /\ pc' = "parsed"
           ELSE /\ parseResult' = parseResult
                /\ pc' = "repair"
    /\ UNCHANGED <<inputs, appVars, runVars, writes, excelVars, original, payload,
                   jsonString>>

\* Lines 168-171: the repair, after the direct decoding failed.
Repair ==
    /\ pc = "repair"
    /\ LET repaired == tryRepairJson(jsonString)
       IN  parseResult' = IF repaired.ok THEN Returned(repaired.val)
                          ELSE ThrownError(MsgTruncated)
    /\ pc' = "parsed"
    /\ UNCHANGED <<inputs, appVars, runVars, writes, excelVars, original, payload,
                   jsonString>>

NextParse == ReceiveResponse \/ DirectDecode \/ Repair

SpecParse == InitParse /\ [][NextParse]_vars

-----------------------------------------------------------------------------
(* The renumbering of lines 65-78 on its own, for pairs of batch-local     *)
(* keys and windows.                                                       *)

KeyChars == {"1", "x", "_", "-"}

\* The texts over KeyChars of length n, and of length at most n.
RECURSIVE TextsOfLen(_)
TextsOfLen(n) ==
    IF n = 0 THEN {<<>>}
    ELSE {Append(t, c) : t \in TextsOfLen(n - 1), c \in KeyChars}

KeySamples == UNION {TextsOfLen(n) : n \in 0..MaxKeyLen}

\* The values of i in the loop of line 31 for a document of MaxPages pages.
WindowStarts == {s \in 0..(MaxPages - 1) : s % BATCH_SIZE = 0}

InitKeys ==
    /\ pc = "keys"
    /\ NoInputs
    /\ NoRun
    /\ NoApp
    /\ NoParse
    /\ NoExport

\* Lines 63-78 for one key of one window: one write to the aggregate map.
RenumberKey ==
    /\ pc = "keys"
    /\ Len(writes) < 2
    /\ \E start \in WindowStarts, localKey \in KeySamples :
          writes' = Append(writes, [key |-> GlobalKey(start, localKey),
                                    window |-> start, localKey |-> localKey])
    /\ UNCHANGED <<inputs, pc, runVars, others>>

NextKeys == RenumberKey

SpecKeys == InitKeys /\ [][NextKeys]_vars

-----------------------------------------------------------------------------
(* downloadExcel in merge mode: excelHelper.ts 6-42.                       *)

NullV == [t |-> "null"]

\* String(cell) for a cell that is not null: the text itself, the decimal
\* text of a number, the elements of an array joined with commas (null as
\* the empty text), and the fixed text of an object.
RECURSIVE CellString(_)
CellString(v) ==
    IF v.t = "str" THEN v.v
    ELSE IF v.t = "num" THEN String(v.v)
    ELSE IF v.t = "arr" THEN
        Join([n \in 1..Len(v.v) |->
                 IF v.v[n].t = "null" THEN <<>> ELSE CellString(v.v[n])])
    ELSE IF v.t = "obj" THEN <<"[object Object]">>
    ELSE <<"null">>

\* Lines 6-16.
sanitizeGridData(rows) ==
    IF rows.t # "arr" THEN <<>>
    ELSE [r \in 1..Len(rows.v) |->
            IF rows.v[r].t # "arr" THEN <<>>
            ELSE [c \in 1..Len(rows.v[r].v) |->
                    IF rows.v[r].v[c].t = "null" THEN <<>>
                    ELSE CellString(rows.v[r].v[c])]]

\* Lines 27-28: parseInt(a.replace(/\D/g, "")) || 0.
NumericKey(a) ==
    LET num == parseInt(StripNonDigits(a))
    IN  IF num.nan THEN 0 ELSE num.val

\* Array.prototype.sort with the comparator of lines 26-30 (the sort is
\* stable): the keys from the n-th on inserted into sorted.
RECURSIVE SortFrom(_, _, _)
SortFrom(keys, n, sorted) ==
    IF n > Len(keys) THEN sorted
    ELSE LET NotAfter(k) == NumericKey(k) <= NumericKey(keys[n])
             After(k) == NumericKey(k) > NumericKey(keys[n])
         IN  SortFrom(keys, n + 1,
                      SelectSeq(sorted, NotAfter) \o <<keys[n]>>
                          \o SelectSeq(sorted, After))

SortPageKeys(keys) == SortFrom(keys, 1, <<>>)

\* The page maps handed to downloadExcel: cells that are texts, numbers and
\* null, a row and a page that are no arrays, an empty row and an empty
\* page, keys that sort as numbers and keys without or with equal numbers.
SheetPages ==
    << [k |-> <<"1">>,
        v |-> ArrV(<< ArrV(<<StrV(<<"A">>), NullV>>), ArrV(<<>>) >>)],
       [k |-> <<"2">>, v |-> ArrV(<< ArrV(<<StrV(<<"B">>)>>) >>)],
       [k |-> <<"9">>, v |-> ArrV(<< ArrV(<<StrV(<<"C">>), NumV(7)>>) >>)],
       [k |-> <<"1", "0">>,
        v |-> ArrV(<< ArrV(<<StrV(<<"D">>)>>), StrV(<<"r">>) >>)],
       [k |-> <<"x">>, v |-> StrV(<<"g">>)],
       [k |-> <<"p", "2">>, v |-> ArrV(<<>>)] >>

\* The maps of at most n of these pages, in every order of insertion.
RECURSIVE MapsOfSize(_)
MapsOfSize(n) ==
    IF n = 0 THEN {<<>>}
    ELSE {Append(m, SheetPages[e]) :
             m \in MapsOfSize(n - 1),
             e \in 1..Len(SheetPages)}

SheetData ==
    {m \in UNION {MapsOfSize(n) : n \in 0..MaxSheetPages} :
        \A a, b \in 1..Len(m) : a # b => m[a].k # m[b].k}

InitExcel ==
    /\ data \in SheetData
    /\ sortedPages = <<>>
    /\ pageIndex = 0
    /\ allRows = <<>>
    /\ sheet = <<>>
    /\ pc = "sort"
    /\ NoInputs
    /\ NoRun
    /\ NoApp
    /\ NoParse

\* Lines 23-30.
SortPages ==
    /\ pc = "sort"
    /\ allRows' = <<>>
    /\ sortedPages' = SortPageKeys(ObjectKeys(ObjV(data)))
    /\ pageIndex' = 1
    /\ pc' = "pages"
    /\ UNCHANGED <<inputs, appVars, runVars, writes, parseVars, data, sheet>>

\* Lines 32-39: one page of the forEach.
AppendPage ==
    /\ pc = "pages"
    /\ pageIndex <= Len(sortedPages)
    /\ LET pageKey == sortedPages[pageIndex]
           cleanRows == sanitizeGridData(ObjGet(data, pageKey))
       IN  allRows' = Append(allRows \o cleanRows, <<>>)
    /\ pageIndex' = pageIndex + 1
    /\ UNCHANGED <<inputs, appVars, pc, runVars, writes, parseVars, data, sortedPages,
                   sheet>>

\* Line 41: the rows are handed to aoa_to_sheet.
BuildSheet ==
    /\ pc = "pages"
    /\ pageIndex > Len(sortedPages)
    /\ sheet' = allRows
    /\ pc' = "written"
    /\ UNCHANGED <<inputs, appVars, runVars, writes, parseVars, data, sortedPages,
                   pageIndex, allRows>>

NextExcel == SortPages \/ AppendPage \/ BuildSheet

SpecExcel == InitExcel /\ [][NextExcel]_vars

-----------------------------------------------------------------------------
(* Claims about the parser, under SpecParse.                               *)

\* The page of the original map with key k.
OriginalPage(k) == original[CHOOSE n \in 1..Len(original) : original[n].k = k].v

\* Whether value v is an array that holds the first rows of grid, each with
\* all of its cells.
LeadingRows(v, grid) ==
    /\ v.t = "arr"
    /\ Len(v.v) <= Len(grid)
    /\ \A r \in 1..Len(v.v) : v.v[r] = GridValue(grid).v[r]

\* C8: a prefix of a serialized page map either fails to parse or parses to
\* a map whose every page is a page of the original and whose every row is
\* a complete row of that page (the leading ones), never a fragment of one.
C8_OnlyCompleteRows ==
    (pc = "parsed" /\ parseResult.kind = "returned") =>
        /\ parseResult.value.t = "obj"
        /\ \A n \in 1..Len(parseResult.value.v) :
              LET e == parseResult.value.v[n]
              IN  /\ \E m \in 1..Len(original) : original[m].k = e.k
                  /\ LeadingRows(e.v, OriginalPage(e.k))

\* A cut-off payload was repaired and lost rows of the original.
C8_Witness ==
    /\ pc = "parsed"
    /\ parseResult.kind = "returned"
    /\ payload # SerializeMap(original)
    /\ parseResult.value # MapValue(original)
    /\ \E n \in 1..Len(parseResult.value.v) :
          Len(parseResult.value.v[n].v.v) >= 1

\* Where the grid of page n of the original starts in its serialization
\* (the count of characters before it).
GridStart(n) ==
    (IF n = 1 THEN 1 ELSE Len(SerializeMap(SubSeq(original, 1, n - 1))))
        + Len(Quote(original[n].k)) + 1

\* The count of characters up to the bracket that closes row r of page n,
\* and up to the bracket that closes page n.
RowEnd(n, r) ==
    GridStart(n) + Len(SerializeGrid(SubSeq(original[n].v, 1, r))) - 1

PageEnd(n) == GridStart(n) + Len(SerializeGrid(original[n].v))

\* The direct decoding of a non-empty payload failed and the repair ran.
RepairRan == pc = "parsed" /\ payload # <<>> /\ ~JSONparse(jsonString).ok

\* The rows and pages fully closed in the text handed to the repair.
ClosedRows ==
    UNION {{<<n, r>> : r \in {q \in 1..Len(original[n].v) :
                                  RowEnd(n, q) <= Len(jsonString)}} :
           n \in 1..Len(original)}

ClosedPages == {n \in 1..Len(original) : PageEnd(n) <= Len(jsonString)}

\* Whether the map returned holds row r of page n, and all of page n.
HoldsRow(val, n, r) ==
    /\ val.t = "obj"
    /\ ObjHas(val.v, original[n].k)
    /\ LET page == ObjGet(val.v, original[n].k)
       IN  /\ page.t = "arr"
           /\ Len(page.v) >= r
           /\ page.v[r] = GridValue(original[n].v).v[r]

HoldsPage(val, n) ==
    /\ val.t = "obj"
    /\ ObjHas(val.v, original[n].k)
    /\ ObjGet(val.v, original[n].k) = GridValue(original[n].v)

\* C9 (as claimed): the repair gives up only the unfinished trailing row or
\* page: what it returns holds every row and page closed in the text, and
\* it does return a map when at least one row is closed.
C9_LosesOnlyTheTail ==
    RepairRan =>
        /\ parseResult.kind = "returned" =>
              /\ \A nr \in ClosedRows :
                    HoldsRow(parseResult.value, nr[1], nr[2])
              /\ \A n \in ClosedPages : HoldsPage(parseResult.value, n)
        /\ ClosedRows # {} => parseResult.kind = "returned"

-----------------------------------------------------------------------------
(* Claims about processFile and its caller, under Spec.                    *)

IsCopy(e) == e.op = "copyPages"

IsExtract(e) == e.op = "extract"

\* The sub-documents built and the calls of the service, in order.
Copies == SelectSeq(trace, IsCopy)

Extracts == SelectSeq(trace, IsExtract)

\* C1: the n-th window holds the page indices from 3(n-1) up to, not
\* including, min(3n, N), and it is what is sent to the service; a run that
\* returns has visited ceil(N / 3) windows, and every page index of [0, N)
\* is in exactly one of them (none for N = 0).
C1_WindowsPartition ==
    /\ \A n \in 1..Len(Copies) :
          Copies[n].pages =
              [j \in 1..(Min(3 * n, totalPages) - 3 * (n - 1)) |->
                  3 * (n - 1) + (j - 1)]
    /\ \A n \in 1..Len(Extracts) : Extracts[n].pages = Copies[n].pages
    /\ outcome.kind = "returned" =>
          /\ Len(Copies) = (totalPages + 2) \div 3
          /\ Len(Extracts) = Len(Copies)
          /\ \A p \in 0..(totalPages - 1) :
                Cardinality({n \in 1..Len(Copies) :
                    \E j \in 1..Len(Copies[n].pages) :
                        Copies[n].pages[j] = p}) = 1

\* A run over seven pages returned: three windows, the last of one page.
C1_Witness ==
    /\ outcome.kind = "returned"
    /\ totalPages = 7
    /\ Len(Copies) = 3
    /\ Copies[3].pages = <<6>>

\* Whether the service labelled the pages of the sub-document of call e
\* with the batch-local keys "1" .. "k".
Labelled(e) ==
    /\ e.result.ok
    /\ e.result.val.t = "obj"
    /\ Len(e.result.val.v) = Len(e.pages)
    /\ {e.result.val.v[n].k : n \in 1..Len(e.result.val.v)}
           = {String(n) : n \in 1..Len(e.pages)}

\* C2: when every batch succeeds with the keys "1" .. "k", the map returned
\* has exactly the keys "1" .. "N", and key g holds what the window that
\* starts at s = 3 * floor((g - 1) / 3) returned under the key g - s.
C2_Renumbering ==
    /\ GlobalKey(6, <<"3">>) = <<"9">>
    /\ (/\ outcome.kind = "returned"
        /\ \A n \in 1..Len(Extracts) : Labelled(Extracts[n])) =>
          /\ Len(outcome.value) = totalPages
          /\ {outcome.value[n].k : n \in 1..Len(outcome.value)}
                 = {String(g) : g \in 1..totalPages}
          /\ \A g \in 1..totalPages :
                LET w == (g - 1) \div 3
                    s == 3 * w
                IN  /\ Extracts[w + 1].start = s
                    /\ ObjGet(outcome.value, String(g))
                           = ObjGet(Extracts[w + 1].result.val.v, String(g - s))

\* Five pages, two labelled batches: the keys "4" and "5" come from the
\* second window.
C2_Witness ==
    /\ outcome.kind = "returned"
    /\ totalPages = 5
    /\ \A n \in 1..Len(Extracts) : Labelled(Extracts[n])
    /\ ObjHas(outcome.value, <<"5">>)

\* C3: a batch that fails ends the run at once: the failed call is the last
\* call made, processFile throws an error whose message names the 1-based
\* range of the window and the message of the cause, and the caller gets no
\* map at all, only the error.
C3_FailureAborts ==
    \A n \in 1..Len(trace) :
        (trace[n].op = "extract" /\ ~trace[n].result.ok) =>
            /\ n = Len(trace)
            /\ pc \in {"settled", "finished"}
            /\ outcome.kind = "thrown"
            /\ outcome.message =
                   <<"Pages ">> \o String(trace[n].start + 1) \o <<"-">>
                       \o String(Min(trace[n].start + 3, totalPages))
                       \o <<" failed: ">>
                       \o (IF trace[n].result.isError
                           THEN trace[n].result.message
                           ELSE <<"unknown error">>)
            /\ extractedData = <<>>
            /\ pc = "finished" =>
                  /\ status.error = outcome.message
                  /\ ~status.isProcessing

\* The second batch of a five page document failed after the first was
\* merged: the error names pages 4-5 and the three pages are not shown.
C3_Witness ==
    /\ pc = "finished"
    /\ totalPages = 5
    /\ Len(aggregatedData) = 3
    /\ extractedData = <<>>
    /\ trace[Len(trace)].op = "extract"
    /\ ~trace[Len(trace)].result.ok
    /\ status.error =
           <<"Pages ", "4", "-", "5", " failed: ", "fetch failed">>

HasDigit(k) == \E n \in 1..Len(k) : IsDigit(k[n])

\* C4 (as claimed): no two writes of a run go to the same key of the
\* aggregate map, whatever keys the service returns.
C4_EveryKeyWrittenOnce ==
    \A a, b \in 1..Len(writes) : a # b => writes[a].key # writes[b].key

\* Whether the keys of call e that hold a digit have different numbers, all
\* within 1 .. k for the k pages sent.
WellNumbered(e) ==
    LET keys == ObjectKeys(e.result.val)
        Num(k) == DigitsValue(StripNonDigits(k))
    IN  \A a \in 1..Len(keys) :
            HasDigit(keys[a]) =>
                /\ Num(keys[a]) \in 1..Len(e.pages)
                /\ \A b \in 1..Len(keys) :
                      (b # a /\ HasDigit(keys[b])) => Num(keys[b]) # Num(keys[a])

\* C4 (amended): when in every batch the keys that hold a digit have
\* different numbers within 1 .. k, no two writes of the run go to the same
\* key.
C4_WrittenOnceWhenWellNumbered ==
    (\A n \in 1..Len(Extracts) :
        Extracts[n].result.ok => WellNumbered(Extracts[n]))
    => \A a, b \in 1..Len(writes) : a # b => writes[a].key # writes[b].key

\* Two windows were merged, one of them under a key without digits.
C4_Witness ==
    /\ outcome.kind = "returned"
    /\ Len(Extracts) = 2
    /\ \A n \in 1..Len(Extracts) : WellNumbered(Extracts[n])
    /\ Len(writes) >= 4
    /\ \E a \in 1..Len(writes) : ~HasDigit(writes[a].localKey)

\* C5: with an empty credential no collaborator is called (no load, no
\* progress notification, no extraction) and the run ends with the
\* configuration error, also when the document is malformed.
C5_ConfigurationErrorFirst ==
    apiKey = <<>> =>
        /\ trace = <<>>
        /\ pc \in {"idle", "checkKey", "settled", "finished"}
        /\ pc \in {"settled", "finished"} =>
              outcome = ThrownError(
                  <<"API key not found, check that process.env.API_KEY is set.">>)
        /\ pc = "finished" =>
              status.error =
                  <<"API key not found, check that process.env.API_KEY is set.">>

\* A run with an empty credential and a malformed document has ended.
C5_Witness ==
    /\ apiKey = <<>>
    /\ ~docValid
    /\ pc = "finished"
    /\ status.error # Null

\* C6 (as claimed): a callback that throws for a window does not end the
\* run: the run goes on to the extraction of that window.
C6_CallbackNeverAborts ==
    \A n \in 1..Len(trace) :
        (trace[n].op = "progress" /\ trace[n].threw) =>
            \/ outcome.kind # "thrown"
            \/ \E m \in (n + 1)..Len(trace) :
                  trace[m].op = "extract" /\ trace[m].start = trace[n].start

-----------------------------------------------------------------------------
(* Claims about the renumbering, under SpecKeys.                           *)

\* Whether text k is the decimal text of an integer.
IsDecimal(k) ==
    \/ k # <<>> /\ \A n \in 1..Len(k) : IsDigit(k[n])
    \/ Len(k) > 1 /\ k[1] = "-" /\ \A n \in 2..Len(k) : IsDigit(k[n])

\* C7: the key written for a batch-local key without digits is never the
\* decimal text of an integer, and no other pair of window and batch-local
\* key is written to the same key.
C7_FallbackKeys ==
    \A a \in 1..Len(writes) :
        ~HasDigit(writes[a].localKey) =>
            /\ ~IsDecimal(writes[a].key)
            /\ \A b \in 1..Len(writes) :
                  (\/ writes[b].window # writes[a].window
                   \/ writes[b].localKey # writes[a].localKey)
                  => writes[b].key # writes[a].key

\* The same key without digits was renumbered in two windows.
C7_Witness ==
    /\ Len(writes) = 2
    /\ ~HasDigit(writes[1].localKey)
    /\ writes[1].localKey = writes[2].localKey
    /\ writes[1].window # writes[2].window

-----------------------------------------------------------------------------
(* Claims about downloadExcel, under SpecExcel.                            *)

\* The sanitized rows of the pages keys[n], keys[n + 1], ..., with one
\* blank row between two pages.
RECURSIVE PagesJoined(_, _)
PagesJoined(keys, n) ==
    IF n > Len(keys) THEN <<>>
    ELSE sanitizeGridData(ObjGet(data, keys[n]))
             \o (IF n < Len(keys) THEN <<<<>>>> ELSE <<>>)
             \o PagesJoined(keys, n + 1)

\* C10 (as claimed): the sheet holds the rows of the pages in ascending
\* numeric order of their keys, one blank row between two pages, none
\* before the first page and none after the last.
C10_OneBlankRowBetweenPages ==
    pc = "written" =>
        /\ \A a, b \in 1..Len(sortedPages) :
              a < b => NumericKey(sortedPages[a]) <= NumericKey(sortedPages[b])
        /\ {sortedPages[n] : n \in 1..Len(sortedPages)}
               = {data[n].k : n \in 1..Len(data)}
        /\ sheet = PagesJoined(sortedPages, 1)


-----------------------------------------------------------------------------
(* The order of the events of a run, under Spec.                           *)

IsSend(e) == e.op = "send"

Sends == SelectSeq(trace, IsSend)

\* The events of the windows: all but the load of the document.
WindowEvents == SelectSeq(trace, LAMBDA e : e.op # "load")

\* The place of an event within its window: notification, copy, request,
\* result.
Rank(e) ==
    CASE e.op = "progress" -> 1
      [] e.op = "copyPages" -> 2
      [] e.op = "send" -> 3
      [] e.op = "extract" -> 4

Before(a, b) ==
    \/ a.start < b.start
    \/ a.start = b.start /\ Rank(a) < Rank(b)

\* The calls of the service not yet answered.
InFlight == Len(Sends) - Len(Extracts)

\* The writes, and the aggregate map, that the results received so far give
\* when each is merged on arrival.
RECURSIVE WritesOf(_, _)
WritesOf(es, n) ==
    IF n > Len(es) THEN <<>>
    ELSE (IF es[n].result.ok
          THEN MergeWrites(es[n].start, es[n].result.val) ELSE <<>>)
             \o WritesOf(es, n + 1)

RECURSIVE AggregateOf(_, _, _)
AggregateOf(es, n, agg) ==
    IF n > Len(es) THEN agg
    ELSE AggregateOf(es, n + 1,
                     IF es[n].result.ok
                     THEN Merge(agg, es[n].start, es[n].result.val) ELSE agg)

\* C11: the events of a run follow the windows strictly in order.  Along
\* the trace the pair (window start, place within the window) increases
\* strictly, so a window is notified, copied, sent and answered at most once
\* and in this order; a window begins only after the window before it was
\* answered with a result; a request follows the copy (and, with a callback,
\* the notification) of its own window; at most one call is unanswered, and
\* nothing else happens while it is; every result received is merged before
\* anything of the next window happens.
C11_StrictlySequential ==
    LET ev == WindowEvents
    IN  /\ \A p, q \in 1..Len(ev) : p < q => Before(ev[p], ev[q])
        /\ \A p \in 1..Len(ev) :
              /\ ev[p].start % BATCH_SIZE = 0
              /\ ev[p].start > 0 =>
                    \E q \in 1..(p - 1) :
                        /\ ev[q].op = "extract"
                        /\ ev[q].start = ev[p].start - BATCH_SIZE
                        /\ ev[q].result.ok
              /\ ev[p].op = "send" =>
                    /\ p > 1
                    /\ ev[p - 1].op = "copyPages"
                    /\ ev[p - 1].start = ev[p].start
                    /\ onProgress # "none" =>
                          /\ p > 2
                          /\ ev[p - 2].op = "progress"
                          /\ ev[p - 2].start = ev[p].start
              /\ ev[p].op = "extract" =>
                    /\ p > 1
                    /\ ev[p - 1].op = "send"
                    /\ ev[p - 1].start = ev[p].start
        /\ InFlight \in {0, 1}
        /\ InFlight = 1 => trace[Len(trace)].op = "send"
        /\ writes = WritesOf(Extracts, 1)
        /\ aggregatedData = AggregateOf(Extracts, 1, <<>>)

\* Three windows were notified, sent and answered one after the other, and
\* the run returned.
C11_Witness ==
    /\ outcome.kind = "returned"
    /\ onProgress = "setStatus"
    /\ totalPages = 7
    /\ Len(Sends) = 3
    /\ Len(Extracts) = 3
    /\ Len(WindowEvents) = 12
    /\ writes # <<>>

-----------------------------------------------------------------------------
(* The end of a run, under SpecLive.                                       *)

CeilDiv(n, d) == (n + d - 1) \div d

RunStarted == pc = "checkKey"

RunEnded == outcome.kind # "pending"

\* C12: a run of processFile that was started ends, by returning the map or
\* by throwing; it makes at most ceil(N / 3) calls of the service for a
\* document of N pages; once it has ended the aggregate map is written no
\* more.
C12_RunEnds ==
    /\ [](Len(Sends) <= CeilDiv(docPages, BATCH_SIZE))
    /\ RunStarted ~> RunEnded
    /\ [][RunEnded => /\ aggregatedData' = aggregatedData
                      /\ writes' = writes
                      /\ RunEnded']_vars

\* A run over seven pages has ended after its three calls of the service.
C12_Witness ==
    /\ RunEnded
    /\ docPages = 7
    /\ Len(Sends) = CeilDiv(docPages, BATCH_SIZE)
    /\ Len(Extracts) = Len(Sends)

-----------------------------------------------------------------------------
(* The App component (App.tsx): its handlers and the runs of processFile   *)
(* they start.  A handler, and the code of a run between two awaits, runs  *)
(* to its end before anything else does; the continuation of handleProcess *)
(* runs as soon as processFile settles.                                    *)

MaxChosen == 2

MaxStarted == 2

MsgNotPdf == <<"Please upload a valid PDF file.">>

PdfType == "application/pdf"

\* The files the user may pick.
Files ==
    { [name |-> "a.pdf", type |-> PdfType, pages |-> 1],
      [name |-> "b.pdf", type |-> PdfType, pages |-> 4],
      [name |-> "c.txt", type |-> "text/plain", pages |-> 0] }

\* What the service may do with a request: fail, or answer as asked.
Answers(ps) ==
    { [kind |-> "throwError", message |-> <<"fetch failed">>],
      Text(SerializeMap(HonestMap(ps))) }

\* What is left alone by the App: the single run of Spec, the parser and
\* the export.
aside == <<apiKey, docValid, docPages, onProgress, pc, totalPages, i, subDoc,
           aggregatedData, outcome, trace, writes, parseVars, excelVars>>

\* The runs in flight without the r-th, which has settled.
Remove(seq, r) ==
    [n \in 1..(Len(seq) - 1) |-> IF n < r THEN seq[n] ELSE seq[n + 1]]

NewRun(file) ==
    [file |-> file, pc |-> "load", totalPages |-> 0, i |-> 0, subDoc |-> <<>>,
     aggregatedData |-> <<>>]

\* App.tsx 86-93: processFile of run r threw, handleProcess shows the error.
Rejected(r, message) ==
    /\ status' = Status(FALSE, 0, message, <<>>)
    /\ installed' = [installed EXCEPT !.error = runs[r].file.id]
    /\ runs' = Remove(runs, r)
    /\ UNCHANGED extractedData

\* geminiService.ts 31-37 and 90, App.tsx 80-85: the head of the loop of run
\* r, now in the state run.  Either the next window is notified (the
\* callback stores the message in status) and the run awaits its
\* sub-document, or processFile returns and handleProcess installs the map.
LoopHead(r, run) ==
    IF run.i < run.totalPages
    THEN /\ status' = [status EXCEPT
                          !.message = ProgressMessage(run.i, run.totalPages)]
         /\ runs' = [runs EXCEPT ![r] = [run EXCEPT !.pc = "split"]]
         /\ UNCHANGED <<extractedData, installed>>
    ELSE /\ extractedData' = run.aggregatedData
         /\ status' = Status(FALSE, 100, Null, <<>>)
         /\ installed' = [data |-> run.file.id, error |-> 0]
         /\ runs' = Remove(runs, r)

InitApp ==
    /\ apiKey \in {<<>>, <<"k">>}
    /\ docValid \in BOOLEAN
    /\ docPages = 0
    /\ onProgress = "setStatus"
    /\ pc = "app"
    /\ NoRun
    /\ NoApp
    /\ NoParse
    /\ NoExport

\* App.tsx 22-43 up to readAsDataURL, called by handleFileChange (45-50) and
\* handleDrop (62-69) of the drop zone, which is rendered without a file
\* (175).
AppProcessFile ==
    /\ fileData = Null
    /\ chosen < MaxChosen
    /\ \E file \in Files :
          IF file.type # PdfType
          THEN /\ status' = [status EXCEPT !.error = MsgNotPdf]
               /\ installed' = [installed EXCEPT !.error = 0]
               /\ UNCHANGED <<reads, chosen>>
          ELSE /\ reads' = reads \cup {[name |-> file.name,
                                        pages |-> file.pages,
                                        id |-> chosen + 1]}
               /\ chosen' = chosen + 1
               /\ UNCHANGED <<status, installed>>
    /\ UNCHANGED <<aside, fileData, extractedData, runs, started>>

\* App.tsx 29-41: reader.onloadend.
ReaderOnLoadEnd ==
    /\ \E file \in reads :
          /\ fileData' = file
          /\ reads' = reads \ {file}
    /\ status' = Status(FALSE, 0, Null, <<>>)
    /\ extractedData' = <<>>
    /\ installed' = [data |-> 0, error |-> 0]
    /\ UNCHANGED <<aside, runs, chosen, started>>

\* App.tsx 118-123: handleReset, on the button rendered with a file (191-209).
HandleReset ==
    /\ fileData # Null
    /\ fileData' = Null
    /\ extractedData' = <<>>
    /\ status' = Status(FALSE, 0, Null, <<>>)
    /\ installed' = [data |-> 0, error |-> 0]
    /\ UNCHANGED <<aside, reads, runs, chosen, started>>

\* App.tsx 71-83 on the button enabled at 236, and geminiService.ts 14-21:
\* handleProcess up to the first await of processFile.  Without a credential
\* processFile has thrown by then.
AppHandleProcess ==
    /\ fileData # Null
    /\ ~status.isProcessing
    /\ started < MaxStarted
    /\ started' = started + 1
    /\ IF apiKey = <<>>
       THEN /\ status' = Status(FALSE, 0, MsgNoApiKey, <<>>)
            /\ installed' = [installed EXCEPT !.error = fileData.id]
            /\ UNCHANGED runs
       ELSE /\ status' = Status(TRUE, 0, Null, <<"Preparing...">>)
            /\ installed' = [installed EXCEPT !.error = 0]
            /\ runs' = Append(runs, NewRun(fileData))
    /\ UNCHANGED <<aside, fileData, reads, extractedData, chosen>>

\* geminiService.ts 19-37: the document of run r is loaded, or is not.
AppLoadDocument(r) ==
    /\ runs[r].pc = "load"
    /\ IF docValid
       THEN LoopHead(r, [runs[r] EXCEPT !.totalPages = runs[r].file.pages,
                                        !.i = 0, !.aggregatedData = <<>>])
       ELSE Rejected(r, MsgCannotLoad)
    /\ UNCHANGED <<aside, fileData, reads, chosen, started>>

\* geminiService.ts 40-56 and 140: the sub-document of the window of run r is
\* built and sent.
AppSendBatch(r) ==
    /\ runs[r].pc = "split"
    /\ runs' = [runs EXCEPT
                   ![r].subDoc = PageIndices(runs[r].i, runs[r].totalPages),
                   ![r].pc = "await"]
    /\ UNCHANGED <<aside, fileData, reads, extractedData, status, installed,
                   chosen, started>>

\* geminiService.ts 140-172 and 56-88: the call of run r is answered.
AppCallGemini(r) ==
    /\ runs[r].pc = "await"
    /\ \E resp \in Answers(runs[r].subDoc) :
          LET batchResult == callGeminiWithRetry(resp)
              run == runs[r]
          IN  IF batchResult.ok
              THEN LoopHead(r, [run EXCEPT
                                   !.aggregatedData =
                                       Merge(run.aggregatedData, run.i,
                                             batchResult.val),
                                   !.i = run.i + BATCH_SIZE])
              ELSE Rejected(r, BatchErrorMessage(run.i, run.totalPages,
                                                 batchResult))
    /\ UNCHANGED <<aside, fileData, reads, chosen, started>>

NextApp ==
    \/ AppProcessFile
    \/ ReaderOnLoadEnd
    \/ HandleReset
    \/ AppHandleProcess
    \/ \E r \in 1..Len(runs) : AppLoadDocument(r)
    \/ \E r \in 1..Len(runs) : AppSendBatch(r)
    \/ \E r \in 1..Len(runs) : AppCallGemini(r)

SpecApp == InitApp /\ [][NextApp]_vars

-----------------------------------------------------------------------------
(* The results the App shows, under SpecApp.                               *)

\* C13 (as claimed): the map shown was extracted from the file selected now,
\* an error shown that came from a run came from a run of the file selected
\* now, and at most one call of processFile is unsettled.
C13_ResultOfSelectedFile ==
    /\ extractedData # <<>> =>
          fileData # Null /\ installed.data = fileData.id
    /\ installed.error # 0 =>
          fileData # Null /\ installed.error = fileData.id
    /\ Len(runs) <= 1
=============================================================================
